---- MODULE Spec2Model ----
(***************************************************************************)
(* A model of apps/predbat/metrics.py: the PredBatMetrics instrument       *)
(* registry (counters, gauges, histograms of prometheus_client) and the   *)
(* collect_current_metrics pass that reads the fields of the shared base  *)
(* object and republishes them.                                           *)
(*                                                                         *)
(* Gauge values are floats in the source; they are modelled as exact      *)
(* rationals [n, d] in lowest terms.  A value read from the base object   *)
(* is a tagged record: t is "absent" (no such attribute), "none" (None),  *)
(* "bad" (a non-empty string: truthy, not a number, not a datetime, not   *)
(* summable), "num", "bool", "time" (a datetime, n in seconds) or "seq".  *)
(***************************************************************************)
EXTENDS Integers, Sequences, FiniteSets, TLC

VARIABLES
    \* the registry (metrics.py:18-54); a labelled instrument is a function of its label
    up, errors_total, last_update_timestamp, plan_valid, plan_age_minutes,
    api_requests_total, api_failures_total, api_response_time, api_last_success_timestamp,
    battery_soc_percent, charge_rate_kw, discharge_rate_kw,
    load_today_kwh, import_today_kwh, export_today_kwh, pv_today_kwh,
    cost_today, savings_total,
    \* the environment: the shared base object and the wall clock of time.time()
    base, clock,
    \* the collector's position in collect_current_metrics and its local values
    pc, frame,
    \* the callers of record_api_request: position and arguments of each
    cpc, cargs,
    \* history of the run, read by the properties only
    passes, mutations, stable, prevBase, startGauges, startErrors, faulted, outcome,
    lastCall, errCalls, ncalls

healthVars  == <<up, last_update_timestamp, plan_valid, plan_age_minutes>>
apiVars     == <<api_requests_total, api_failures_total, api_response_time, api_last_success_timestamp>>
batteryVars == <<battery_soc_percent, charge_rate_kw, discharge_rate_kw>>
energyVars  == <<load_today_kwh, import_today_kwh, export_today_kwh, pv_today_kwh>>
costVars    == <<cost_today, savings_total>>
passVars    == <<pc, frame, passes, stable, prevBase, startGauges, startErrors, faulted, outcome>>
callVars    == <<lastCall, errCalls, ncalls>>
concVars    == <<cpc, cargs>>
vars == <<healthVars, errors_total, apiVars, batteryVars, energyVars, costVars,
          base, clock, mutations, passVars, callVars, concVars>>

---------------------------------------------------------------------------
\* Bounds of the model.
MaxPasses    == 2   \* collection passes in a run
MaxMutations == 2   \* writes of the application to the base object in a run
MaxClock     == 1   \* ticks of the wall clock in a run
MaxCalls     == 3   \* direct calls of registry operations in a run
MaxApiCalls  == 2   \* record_api_request calls of one concurrent call site

---------------------------------------------------------------------------
\* Rationals in lowest terms, standing for the floats of the source.
RECURSIVE GCD(_, _)
GCD(a, b) == IF b = 0 THEN a ELSE GCD(b, a % b)

Abs(x) == IF x < 0 THEN -x ELSE x

\* n / d for d # 0
Rat(n, d) ==
    LET g == GCD(Abs(n), Abs(d))
        s == IF d < 0 THEN -1 ELSE 1
    IN  [n |-> (s * n) \div g, d |-> (s * d) \div g]

Zero == Rat(0, 1)
One  == Rat(1, 1)

RatMul(a, b) == Rat(a.n * b.n, a.d * b.d)
\* a / b for b.n # 0
RatDiv(a, b) == Rat(a.n * b.d, a.d * b.n)

---------------------------------------------------------------------------
\* Values of the attributes of the base object.
Absent   == [t |-> "absent", n |-> 0]
NoneV    == [t |-> "none", n |-> 0]
Bad      == [t |-> "bad", n |-> 0]
Num(k)   == [t |-> "num", n |-> k]
Time(k)  == [t |-> "time", n |-> k]
Bool(b)  == [t |-> "bool", n |-> IF b THEN 1 ELSE 0]
AbsentL  == [t |-> "absent", s |-> <<>>]
BadL     == [t |-> "bad", s |-> <<>>]
List(s)  == [t |-> "seq", s |-> s]

Fields == {"plan_last_updated", "now_utc", "had_errors", "plan_valid",
           "soc_kw", "soc_max", "load_minutes_today", "cost_today_sofar"}

\* The values the application may give each attribute.
FieldValues(f) ==
    CASE f = "plan_last_updated"  -> {Absent, NoneV, Time(0), Bad}
      [] f = "now_utc"            -> {Absent, Time(600), Bad}
      [] f = "had_errors"         -> {Absent, Bool(FALSE), Bool(TRUE)}
      [] f = "plan_valid"         -> {Absent, Bool(FALSE), Bool(TRUE)}
      [] f = "soc_kw"             -> {Absent, NoneV, Num(0), Num(4), Bad}
      [] f = "soc_max"            -> {Absent, Num(-10), Num(0), Num(10), Bad}
      [] f = "load_minutes_today" -> {AbsentL, List(<<>>), List(<<30, 90>>), BadL}
      [] f = "cost_today_sofar"   -> {Absent, NoneV, Num(3), Bad}

\* The base object before the application has set any attribute.
EmptyBase == [f \in Fields |-> IF f = "load_minutes_today" THEN AbsentL ELSE Absent]

\* The base object of a running application, every attribute well-formed.
FullBase ==
    [f \in Fields |->
        CASE f = "plan_last_updated"  -> Time(0)
          [] f = "now_utc"            -> Time(600)
          [] f = "had_errors"         -> Bool(FALSE)
          [] f = "plan_valid"         -> Bool(TRUE)
          [] f = "soc_kw"             -> Num(4)
          [] f = "soc_max"            -> Num(10)
          [] f = "load_minutes_today" -> List(<<30, 90>>)
          [] f = "cost_today_sofar"   -> Num(3)]

\* Python's truth value of an object.
Truthy(x) ==
    CASE x.t = "none" -> FALSE
      [] x.t = "bad"  -> TRUE
      [] x.t = "time" -> TRUE
      [] x.t = "num"  -> x.n # 0
      [] x.t = "bool" -> x.n = 1
      [] x.t = "seq"  -> Len(x.s) > 0

\* hasattr(self.base, f)
HasAttr(f) == base[f].t # "absent"

\* float(x) of Gauge.set: a number converts, anything else raises
IsNumber(x) == x.t \in {"num", "bool"}

RECURSIVE SumSeq(_)
SumSeq(s) == IF s = <<>> THEN 0 ELSE Head(s) + SumSeq(Tail(s))

---------------------------------------------------------------------------
\* The registry.
THIS_VERSION == "v1"
Versions   == {THIS_VERSION}
ErrorTypes == {"general", "metrics_collection", "api"}
Services   == {"octopus", "solcast"}

\* Counter.inc()
CounterInc(c) == c + 1

\* A faulty Gauge.set that accumulates instead of overwriting.
GaugeAdd(old, value) == Rat(old.n * value.d + value.n * old.d, old.d * value.d)

\* Gauge.set(value): last write wins
GaugeSet(old, value) == value

\* Histogram.observe(value): one more observation, the sum grows by value
HistObserve(h, value) == [count |-> h.count + 1, sum |-> h.sum + value]

\* A faulty record_error that counts every error under the label 'general'.
RecordErrorGeneral(error_type) ==
    errors_total' = [errors_total EXCEPT !["general"] = CounterInc(@)]

\* record_error(error_type)
RecordError(error_type) ==
    errors_total' = [errors_total EXCEPT ![error_type] = CounterInc(@)]

\* update_app_health(version, has_errors, plan_valid, plan_age_minutes)
UpdateAppHealth(version, has_errors, valid, age) ==
    /\ up' = [up EXCEPT ![version] = GaugeSet(@, One)]
    /\ last_update_timestamp' = GaugeSet(last_update_timestamp, Rat(clock, 1))
    /\ plan_valid' = GaugeSet(plan_valid, IF valid THEN One ELSE Zero)
    /\ plan_age_minutes' = GaugeSet(plan_age_minutes, age)
    /\ IF has_errors
          THEN errors_total' = [errors_total EXCEPT !["general"] = CounterInc(@)]
          ELSE UNCHANGED errors_total

\* An optional argument: <<>> when omitted (None), <<v>> when supplied.
Omitted == <<>>
Given(v) == <<v>>

\* A faulty guard, "if arg:", that takes a supplied 0 for an omitted argument.
SetIfTruthy(gauge, arg) ==
    IF arg # Omitted /\ arg[1].n # 0 THEN GaugeSet(gauge, arg[1]) ELSE gauge

\* if arg is not None: gauge.set(arg)
SetIfGiven(gauge, arg) == IF arg # Omitted THEN GaugeSet(gauge, arg[1]) ELSE gauge

\* update_battery_metrics(soc_percent=None, charge_rate_kw=None, discharge_rate_kw=None)
UpdateBatteryMetrics(soc_percent, charge, discharge) ==
    /\ battery_soc_percent' = SetIfGiven(battery_soc_percent, soc_percent)
    /\ charge_rate_kw' = SetIfGiven(charge_rate_kw, charge)
    /\ discharge_rate_kw' = SetIfGiven(discharge_rate_kw, discharge)

\* update_energy_metrics(load_kwh=None, import_kwh=None, export_kwh=None, pv_kwh=None)
UpdateEnergyMetrics(load_kwh, import_kwh, export_kwh, pv_kwh) ==
    /\ load_today_kwh' = SetIfGiven(load_today_kwh, load_kwh)
    /\ import_today_kwh' = SetIfGiven(import_today_kwh, import_kwh)
    /\ export_today_kwh' = SetIfGiven(export_today_kwh, export_kwh)
    /\ pv_today_kwh' = SetIfGiven(pv_today_kwh, pv_kwh)

\* update_cost_metrics(cost_today=None, savings_total=None)
UpdateCostMetrics(cost, savings) ==
    /\ cost_today' = SetIfGiven(cost_today, cost)
    /\ savings_total' = SetIfGiven(savings_total, savings)

\* self.api_requests_total.labels(service=service).inc()
ApiRequestInc(service) ==
    api_requests_total' = [api_requests_total EXCEPT ![service] = CounterInc(@)]

\* self.api_last_success_timestamp.labels(service=service).set_to_current_time()
ApiStampSuccess(service) ==
    api_last_success_timestamp' =
        [api_last_success_timestamp EXCEPT ![service] = GaugeSet(@, Rat(clock, 1))]

\* self.api_failures_total.labels(service=service).inc()
ApiFailureInc(service) ==
    api_failures_total' = [api_failures_total EXCEPT ![service] = CounterInc(@)]

\* A faulty guard, "if response_time:", that drops an observation of 0 seconds.
ApiObserveIfTruthy(service, response_time) ==
    api_response_time' =
        IF response_time # Omitted /\ response_time[1] # 0
           THEN [api_response_time EXCEPT ![service] = HistObserve(@, response_time[1])]
           ELSE api_response_time

\* if response_time is not None: self.api_response_time.labels(service=service).observe(response_time)
ApiObserve(service, response_time) ==
    api_response_time' =
        IF response_time # Omitted
           THEN [api_response_time EXCEPT ![service] = HistObserve(@, response_time[1])]
           ELSE api_response_time

\* record_api_request(service, success=True, response_time=None)
RecordApiRequest(service, success, response_time) ==
    /\ ApiRequestInc(service)
    /\ IF success
          THEN ApiStampSuccess(service) /\ UNCHANGED api_failures_total
          ELSE ApiFailureInc(service) /\ UNCHANGED api_last_success_timestamp
    /\ ApiObserve(service, response_time)

\* The call sites of record_api_request that run concurrently.
Callers == {"c1", "c2"}
NoArgs == [service |-> "octopus", success |-> TRUE, response_time |-> Omitted, n |-> 0]

---------------------------------------------------------------------------
\* collect_current_metrics, one step per read of the base object.
Frame0 == [age |-> Zero, has_errors |-> FALSE, now |-> Absent, soc |-> Absent, exc |-> "none"]

\* The gauges a collection pass writes.
Gauges ==
    [up |-> up, plan_valid |-> plan_valid, plan_age_minutes |-> plan_age_minutes,
     battery_soc_percent |-> battery_soc_percent, load_today_kwh |-> load_today_kwh,
     cost_today |-> cost_today]

\* A faulty handler, "except AttributeError", that lets the other faults through.
CaughtNarrow(kind) == kind = "AttributeError"

\* except Exception as e: every fault of the pass is a subclass of Exception
Caught(kind) == kind \in {"AttributeError", "TypeError", "ZeroDivisionError", "ValueError"}

Goto(l) == pc' = l /\ UNCHANGED frame

\* An exception of the given kind leaves the try block.
Raise(kind) ==
    /\ pc' = IF Caught(kind) THEN "except" ELSE "raised"
    /\ frame' = [frame EXCEPT !.exc = kind]

regVars == <<healthVars, errors_total, apiVars, batteryVars, energyVars, costVars>>
envVars == <<base, clock, mutations>>
passGhost == <<passes, stable, prevBase, startGauges, startErrors, faulted, outcome>>

\* The step leaves everything but pc and frame alone.
OnlyControl == UNCHANGED <<regVars, envVars, passGhost, callVars, concVars>>

\* def collect_current_metrics(self): try: version = THIS_VERSION; plan_age_minutes = 0
Start ==
    /\ pc = "idle" /\ passes < MaxPasses
    /\ pc' = "L152"
    /\ frame' = Frame0
    /\ stable' = TRUE
    /\ startGauges' = Gauges
    /\ startErrors' = errors_total
    /\ faulted' = FALSE
    /\ outcome' = "running"
    /\ UNCHANGED <<regVars, envVars, passes, prevBase, callVars, concVars>>

\* if hasattr(self.base, 'plan_last_updated') and ...
L152_hasattr ==
    /\ pc = "L152"
    /\ Goto(IF HasAttr("plan_last_updated") THEN "L152b" ELSE "L158")
    /\ OnlyControl

\* ... and self.base.plan_last_updated:
L152_truth ==
    /\ pc = "L152b"
    /\ IF ~HasAttr("plan_last_updated") THEN Raise("AttributeError")
       ELSE Goto(IF Truthy(base.plan_last_updated) THEN "L153" ELSE "L158")
    /\ OnlyControl

\* plan_age = self.base.now_utc - ...   (the left operand is read first)
L153_now ==
    /\ pc = "L153"
    /\ IF ~HasAttr("now_utc") THEN Raise("AttributeError")
       ELSE pc' = "L153b" /\ frame' = [frame EXCEPT !.now = base.now_utc]
    /\ OnlyControl

\* ... - self.base.plan_last_updated; plan_age_minutes = plan_age.total_seconds() / 60.0
L153_sub ==
    /\ pc = "L153b"
    /\ IF ~HasAttr("plan_last_updated") THEN Raise("AttributeError")
       ELSE IF frame.now.t # "time" \/ base.plan_last_updated.t # "time" THEN Raise("TypeError")
       ELSE /\ pc' = "L158"
            /\ frame' = [frame EXCEPT !.age = Rat(frame.now.n - base.plan_last_updated.n, 60),
                                      !.now = Absent]
    /\ OnlyControl

\* has_errors=getattr(self.base, 'had_errors', False)
L158_had_errors ==
    /\ pc = "L158"
    /\ pc' = "L159"
    /\ frame' = [frame EXCEPT !.has_errors = HasAttr("had_errors") /\ Truthy(base.had_errors)]
    /\ OnlyControl

\* plan_valid=getattr(self.base, 'plan_valid', False); self.update_app_health(...)
L159_update_app_health ==
    /\ pc = "L159"
    /\ UpdateAppHealth(THIS_VERSION, frame.has_errors,
                       HasAttr("plan_valid") /\ Truthy(base.plan_valid), frame.age)
    /\ pc' = "L164"
    /\ frame' = [frame EXCEPT !.age = Zero, !.has_errors = FALSE]
    /\ UNCHANGED <<apiVars, batteryVars, energyVars, costVars, envVars, passGhost, callVars, concVars>>

\* if hasattr(self.base, 'soc_kw') and ...
L164_hasattr ==
    /\ pc = "L164"
    /\ Goto(IF HasAttr("soc_kw") THEN "L164b" ELSE "L169")
    /\ OnlyControl

\* ... and self.base.soc_kw:
L164_truth ==
    /\ pc = "L164b"
    /\ IF ~HasAttr("soc_kw") THEN Raise("AttributeError")
       ELSE Goto(IF Truthy(base.soc_kw) THEN "L165" ELSE "L169")
    /\ OnlyControl

\* ... if self.base.soc_max > 0 else 0; self.update_battery_metrics(soc_percent=0)
L165_cond ==
    /\ pc = "L165"
    /\ IF ~HasAttr("soc_max")
          THEN Raise("AttributeError") /\ UNCHANGED batteryVars
       ELSE IF ~IsNumber(base.soc_max)
          THEN Raise("TypeError") /\ UNCHANGED batteryVars
       ELSE IF base.soc_max.n > 0
          THEN Goto("L165b") /\ UNCHANGED batteryVars
       ELSE Goto("L169") /\ UpdateBatteryMetrics(Given(Zero), Omitted, Omitted)
    /\ UNCHANGED <<healthVars, errors_total, apiVars, energyVars, costVars, envVars,
                   passGhost, callVars, concVars>>

\* soc_percent = (self.base.soc_kw / ...
L165_soc ==
    /\ pc = "L165b"
    /\ IF ~HasAttr("soc_kw") THEN Raise("AttributeError")
       ELSE pc' = "L165c" /\ frame' = [frame EXCEPT !.soc = base.soc_kw]
    /\ OnlyControl

\* ... / self.base.soc_max) * 100; self.update_battery_metrics(soc_percent=soc_percent)
L165_div ==
    /\ pc = "L165c"
    /\ IF ~HasAttr("soc_max")
          THEN Raise("AttributeError") /\ UNCHANGED batteryVars
       ELSE IF ~IsNumber(frame.soc) \/ ~IsNumber(base.soc_max)
          THEN Raise("TypeError") /\ UNCHANGED batteryVars
       ELSE IF base.soc_max.n = 0
          THEN Raise("ZeroDivisionError") /\ UNCHANGED batteryVars
       ELSE /\ pc' = "L169"
            /\ frame' = [frame EXCEPT !.soc = Absent]
            /\ UpdateBatteryMetrics(
                   Given(RatMul(RatDiv(Rat(frame.soc.n, 1), Rat(base.soc_max.n, 1)), Rat(100, 1))),
                   Omitted, Omitted)
    /\ UNCHANGED <<healthVars, errors_total, apiVars, energyVars, costVars, envVars,
                   passGhost, callVars, concVars>>

\* if hasattr(self.base, 'load_minutes_today'):
L169_hasattr ==
    /\ pc = "L169"
    /\ Goto(IF HasAttr("load_minutes_today") THEN "L170" ELSE "L174")
    /\ OnlyControl

\* load_kwh = ... if self.base.load_minutes_today else 0; self.update_energy_metrics(load_kwh=0)
L170_cond ==
    /\ pc = "L170"
    /\ IF ~HasAttr("load_minutes_today")
          THEN Raise("AttributeError") /\ UNCHANGED energyVars
       ELSE IF Truthy(base.load_minutes_today)
          THEN Goto("L170b") /\ UNCHANGED energyVars
       ELSE Goto("L174") /\ UpdateEnergyMetrics(Given(Zero), Omitted, Omitted, Omitted)
    /\ UNCHANGED <<healthVars, errors_total, apiVars, batteryVars, costVars, envVars,
                   passGhost, callVars, concVars>>

\* load_kwh = sum(self.base.load_minutes_today) / 60.0; self.update_energy_metrics(load_kwh=load_kwh)
L170_sum ==
    /\ pc = "L170b"
    /\ IF ~HasAttr("load_minutes_today")
          THEN Raise("AttributeError") /\ UNCHANGED energyVars
       ELSE IF base.load_minutes_today.t # "seq"
          THEN Raise("TypeError") /\ UNCHANGED energyVars
       ELSE /\ Goto("L174")
            /\ UpdateEnergyMetrics(Given(Rat(SumSeq(base.load_minutes_today.s), 60)),
                                   Omitted, Omitted, Omitted)
    /\ UNCHANGED <<healthVars, errors_total, apiVars, batteryVars, costVars, envVars,
                   passGhost, callVars, concVars>>

\* if hasattr(self.base, 'cost_today_sofar'):
L174_hasattr ==
    /\ pc = "L174"
    /\ Goto(IF HasAttr("cost_today_sofar") THEN "L175" ELSE "done")
    /\ OnlyControl

\* self.update_cost_metrics(cost_today=self.base.cost_today_sofar)
L175_update_cost ==
    /\ pc = "L175"
    /\ IF ~HasAttr("cost_today_sofar")
          THEN Raise("AttributeError") /\ UNCHANGED costVars
       ELSE IF base.cost_today_sofar.t = "none"
          THEN Goto("done") /\ UpdateCostMetrics(Omitted, Omitted)
       ELSE IF ~IsNumber(base.cost_today_sofar)
          THEN Raise("ValueError") /\ UNCHANGED costVars
       ELSE Goto("done") /\ UpdateCostMetrics(Given(Rat(base.cost_today_sofar.n, 1)), Omitted)
    /\ UNCHANGED <<healthVars, errors_total, apiVars, batteryVars, energyVars, envVars,
                   passGhost, callVars, concVars>>

\* A faulty handler that counts the fault once when logging it and once more
\* through record_error.
ExceptCountsTwice ==
    /\ pc = "except"
    /\ errors_total' = [errors_total EXCEPT !["metrics_collection"] = CounterInc(CounterInc(@))]
    /\ pc' = "done"
    /\ faulted' = TRUE
    /\ UNCHANGED <<frame, healthVars, apiVars, batteryVars, energyVars, costVars, envVars,
                   passes, stable, prevBase, startGauges, startErrors, outcome,
                   callVars, concVars>>

\* except Exception as e: self.log(...); self.record_error('metrics_collection')
Except ==
    /\ pc = "except"
    /\ RecordError("metrics_collection")
    /\ pc' = "done"
    /\ faulted' = TRUE
    /\ UNCHANGED <<frame, healthVars, apiVars, batteryVars, energyVars, costVars, envVars,
                   passes, stable, prevBase, startGauges, startErrors, outcome,
                   callVars, concVars>>

\* The call ends: it returns to the timer, or the exception leaves it.
Return ==
    /\ pc \in {"done", "raised"}
    /\ pc' = "idle"
    /\ frame' = Frame0
    /\ outcome' = IF pc = "done" THEN "returned" ELSE "raised"
    /\ passes' = passes + 1
    /\ prevBase' = IF stable THEN <<base>> ELSE <<>>
    /\ stable' = TRUE
    /\ faulted' = FALSE
    /\ startGauges' = Gauges
    /\ startErrors' = errors_total
    /\ UNCHANGED <<regVars, envVars, callVars, concVars>>

\* The application writes or deletes one attribute of the base object, at any time.
Mutate(f, v) ==
    /\ mutations < MaxMutations
    /\ v # base[f]
    /\ base' = [base EXCEPT ![f] = v]
    /\ mutations' = mutations + 1
    /\ stable' = (stable /\ pc = "idle")
    /\ UNCHANGED <<regVars, clock, pc, frame, passes, prevBase, startGauges, startErrors,
                   faulted, outcome, callVars, concVars>>

\* Time passes: time.time() grows.
Tick ==
    /\ clock < MaxClock
    /\ clock' = clock + 1
    /\ UNCHANGED <<regVars, base, mutations, passVars, callVars, concVars>>

Hist0 == [count |-> 0, sum |-> 0]

\* __init__: every instrument is declared; the four services' last-success
\* gauges are stamped with the current time.
InitWith(b) ==
    /\ up = [v \in Versions |-> Zero]
    /\ errors_total = [t \in ErrorTypes |-> 0]
    /\ last_update_timestamp = Zero
    /\ plan_valid = Zero
    /\ plan_age_minutes = Zero
    /\ api_requests_total = [s \in Services |-> 0]
    /\ api_failures_total = [s \in Services |-> 0]
    /\ api_response_time = [s \in Services |-> Hist0]
    /\ clock = 0
    /\ api_last_success_timestamp = [s \in Services |-> Rat(clock, 1)]
    /\ battery_soc_percent = Zero
    /\ charge_rate_kw = Zero
    /\ discharge_rate_kw = Zero
    /\ load_today_kwh = Zero
    /\ import_today_kwh = Zero
    /\ export_today_kwh = Zero
    /\ pv_today_kwh = Zero
    /\ cost_today = Zero
    /\ savings_total = Zero
    /\ base = b
    /\ pc = "idle"
    /\ frame = Frame0
    /\ cpc = [c \in Callers |-> "idle"]
    /\ cargs = [c \in Callers |-> NoArgs]
    /\ passes = 0
    /\ mutations = 0
    /\ stable = TRUE
    /\ prevBase = <<>>
    /\ startGauges = Gauges
    /\ startErrors = errors_total
    /\ faulted = FALSE
    /\ outcome = "none"
    /\ lastCall = <<>>
    /\ errCalls = [t \in ErrorTypes |-> 0]
    /\ ncalls = 0

\* The collector is built before or after the application has filled the base object.
Init == \E b \in {EmptyBase, FullBase} : InitWith(b)

\* The registry's operations do not read the base object.
InitCalls == InitWith(FullBase)

Collect ==
    \/ Start
    \/ L152_hasattr
    \/ L152_truth
    \/ L153_now
    \/ L153_sub
    \/ L158_had_errors
    \/ L159_update_app_health
    \/ L164_hasattr
    \/ L164_truth
    \/ L165_cond
    \/ L165_soc
    \/ L165_div
    \/ L169_hasattr
    \/ L170_cond
    \/ L170_sum
    \/ L174_hasattr
    \/ L175_update_cost
    \/ Except
    \/ Return

\* The collector on its timer, beside an application that writes the base
\* object.  The pass stamps last_update_timestamp with the one clock value
\* of this specification; the clock moves in SpecCounters and SpecApi.
Next ==
    \/ Collect
    \/ \E f \in Fields : \E v \in FieldValues(f) : Mutate(f, v)

Spec == Init /\ [][Next]_vars

---------------------------------------------------------------------------
\* Direct calls of the registry's operations, one call after another.
collectorVars == <<base, mutations, passVars>>

\* The values a caller supplies for an optional gauge argument.
Five == Rat(5, 1)
GaugeArgs == {Omitted, Given(Zero), Given(Five)}

\* The response times a caller supplies, in seconds.
ResponseTimes == {Omitted, Given(0), Given(2)}

\* self.update_battery_metrics(soc_percent, charge_rate_kw, discharge_rate_kw)
CallUpdateBattery(a, b, c) ==
    /\ UpdateBatteryMetrics(a, b, c)
    /\ lastCall' = <<"update_battery_metrics", a, b, c>>
    /\ UNCHANGED <<healthVars, errors_total, apiVars, energyVars, costVars, clock,
                   collectorVars, concVars, errCalls, ncalls>>

\* self.update_energy_metrics(load_kwh, import_kwh, export_kwh, pv_kwh)
CallUpdateEnergy(a, b, c, d) ==
    /\ UpdateEnergyMetrics(a, b, c, d)
    /\ lastCall' = <<"update_energy_metrics", a, b, c, d>>
    /\ UNCHANGED <<healthVars, errors_total, apiVars, batteryVars, costVars, clock,
                   collectorVars, concVars, errCalls, ncalls>>

\* self.update_cost_metrics(cost_today, savings_total)
CallUpdateCost(a, b) ==
    /\ UpdateCostMetrics(a, b)
    /\ lastCall' = <<"update_cost_metrics", a, b>>
    /\ UNCHANGED <<healthVars, errors_total, apiVars, batteryVars, energyVars, clock,
                   collectorVars, concVars, errCalls, ncalls>>

NextGauges ==
    \/ \E a, b, c \in GaugeArgs : CallUpdateBattery(a, b, c)
    \/ \E a, b, c, d \in GaugeArgs : CallUpdateEnergy(a, b, c, d)
    \/ \E a, b \in GaugeArgs : CallUpdateCost(a, b)

SpecGauges == InitCalls /\ [][NextGauges]_vars

\* self.record_error(error_type)
CallRecordError(t) ==
    /\ ncalls < MaxCalls
    /\ RecordError(t)
    /\ lastCall' = <<"record_error", t>>
    /\ errCalls' = [errCalls EXCEPT ![t] = @ + 1]
    /\ ncalls' = ncalls + 1
    /\ UNCHANGED <<healthVars, apiVars, batteryVars, energyVars, costVars, clock,
                   collectorVars, concVars>>

\* self.record_api_request(service, success, response_time)
CallRecordApiRequest(service, success, response_time) ==
    /\ ncalls < MaxCalls
    /\ RecordApiRequest(service, success, response_time)
    /\ lastCall' = <<"record_api_request", service, success, response_time>>
    /\ ncalls' = ncalls + 1
    /\ UNCHANGED <<healthVars, errors_total, batteryVars, energyVars, costVars, clock,
                   collectorVars, concVars, errCalls>>

NextCounters ==
    \/ \E t \in ErrorTypes : CallRecordError(t)
    \/ \E s \in Services : \E ok \in BOOLEAN : \E rt \in ResponseTimes :
          CallRecordApiRequest(s, ok, rt)
    \/ Tick

SpecCounters == InitCalls /\ [][NextCounters]_vars

---------------------------------------------------------------------------
\* record_api_request called from several call sites at once: each instrument
\* update (inc, set, observe) is atomic, the calls interleave between them.
apiRest == <<healthVars, errors_total, batteryVars, energyVars, costVars, clock,
             collectorVars, callVars>>

\* a call site enters record_api_request(service, success, response_time)
ApiEnter(c, service, success, response_time) ==
    /\ cpc[c] = "idle" /\ cargs[c].n < MaxApiCalls
    /\ cpc' = [cpc EXCEPT ![c] = "L75"]
    /\ cargs' = [cargs EXCEPT ![c] = [service |-> service, success |-> success,
                                      response_time |-> response_time, n |-> @.n + 1]]
    /\ UNCHANGED <<apiVars, apiRest>>

\* A faulty record_api_request that counts the request in the success branch only.
ApiL75SuccessOnly(c) ==
    /\ cpc[c] = "L75"
    /\ IF cargs[c].success THEN ApiRequestInc(cargs[c].service)
                           ELSE UNCHANGED api_requests_total
    /\ cpc' = [cpc EXCEPT ![c] = IF cargs[c].success THEN "L78" ELSE "L80"]
    /\ UNCHANGED <<api_failures_total, api_response_time, api_last_success_timestamp,
                   cargs, apiRest>>

\* line 75, then the test of line 77
ApiL75(c) ==
    /\ cpc[c] = "L75"
    /\ ApiRequestInc(cargs[c].service)
    /\ cpc' = [cpc EXCEPT ![c] = IF cargs[c].success THEN "L78" ELSE "L80"]
    /\ UNCHANGED <<api_failures_total, api_response_time, api_last_success_timestamp,
                   cargs, apiRest>>

\* line 78
ApiL78(c) ==
    /\ cpc[c] = "L78"
    /\ ApiStampSuccess(cargs[c].service)
    /\ cpc' = [cpc EXCEPT ![c] = "L82"]
    /\ UNCHANGED <<api_requests_total, api_failures_total, api_response_time, cargs, apiRest>>

\* line 80
ApiL80(c) ==
    /\ cpc[c] = "L80"
    /\ ApiFailureInc(cargs[c].service)
    /\ cpc' = [cpc EXCEPT ![c] = "L82"]
    /\ UNCHANGED <<api_requests_total, api_response_time, api_last_success_timestamp,
                   cargs, apiRest>>

\* lines 82-83, and the return
ApiL82(c) ==
    /\ cpc[c] = "L82"
    /\ ApiObserve(cargs[c].service, cargs[c].response_time)
    /\ cpc' = [cpc EXCEPT ![c] = "idle"]
    /\ cargs' = [cargs EXCEPT ![c] = [NoArgs EXCEPT !.n = cargs[c].n]]
    /\ UNCHANGED <<api_requests_total, api_failures_total, api_last_success_timestamp, apiRest>>

NextApi ==
    \/ \E c \in Callers : \E s \in Services : \E ok \in BOOLEAN : \E rt \in ResponseTimes :
          ApiEnter(c, s, ok, rt)
    \/ \E c \in Callers : ApiL75(c)
    \/ \E c \in Callers : ApiL78(c)
    \/ \E c \in Callers : ApiL80(c)
    \/ \E c \in Callers : ApiL82(c)

SpecApi == InitCalls /\ [][NextApi]_vars

---------------------------------------------------------------------------
\* The properties.

MC == "metrics_collection"

\* A pass has run to its end on a base object nobody wrote meanwhile.
PassDoneStable == pc = "done" /\ stable

\* The attribute holds a value of the type the application gives it.
WellFormed(f) ==
    CASE f \in {"plan_last_updated", "now_utc"} -> base[f].t = "time"
      [] f \in {"had_errors", "plan_valid"}     -> base[f].t = "bool"
      [] f \in {"soc_kw", "soc_max", "cost_today_sofar"} -> base[f].t = "num"
      [] f = "load_minutes_today"               -> base[f].t = "seq"

\* What the specification asks the gauges to be after a pass over the base object.
WantPlanAge ==
    IF HasAttr("plan_last_updated")
       THEN Rat(base.now_utc.n - base.plan_last_updated.n, 60) ELSE Zero
WantPlanValid == IF HasAttr("plan_valid") /\ base.plan_valid.n = 1 THEN One ELSE Zero
WantSoc ==
    IF base.soc_max.n > 0 THEN Rat(base.soc_kw.n * 100, base.soc_max.n) ELSE Zero
WantLoad == Rat(SumSeq(base.load_minutes_today.s), 60)
WantCost == Rat(base.cost_today_sofar.n, 1)

\* C1: collect_current_metrics never propagates an exception to its caller:
\* whatever the base object holds, and however it changes between two reads
\* of a pass, no exception leaves the try block uncaught, and every call
\* that has ended has returned normally.
C1_NeverPropagates ==
    /\ pc # "raised"
    /\ outcome # "raised"
    /\ (pc = "idle" /\ passes > 0) => outcome = "returned"

\* C1's case: a pass that faulted on an attribute that went away during the
\* pass has reached its end.
C1_Witness ==
    /\ pc = "done" /\ faulted /\ ~stable
    /\ frame.exc = "AttributeError"

\* C2: a pass that hits a fault increments errors_total{metrics_collection}
\* by exactly one; the faulting step and every step after it leave the
\* gauges as the earlier steps wrote them, and lead only to the return.
C2_FaultIsolated ==
    [][ /\ (pc' = "except" \/ pc \in {"except", "done"}) => Gauges' = Gauges
        /\ (pc = "except" /\ pc' # pc) => pc' = "done"
        /\ pc = "done" => pc' \in {"done", "idle"}
        /\ (pc' = "done" /\ faulted') =>
              errors_total'[MC] = startErrors'[MC] + 1
        /\ (pc' = "done" /\ ~faulted') =>
              errors_total'[MC] = startErrors'[MC] ]_vars

\* C2's case: a pass that set the battery gauge to 40 faulted on the load
\* series; the battery gauge holds 40, the cost gauge was not written, and
\* the error counter is one above its value at the start of the pass.
C2_Witness ==
    /\ pc = "done" /\ faulted /\ stable
    /\ base.load_minutes_today.t = "bad"
    /\ base.cost_today_sofar = Num(3)
    /\ startGauges.battery_soc_percent = Zero
    /\ battery_soc_percent = Rat(40, 1)
    /\ cost_today = Zero
    /\ errors_total[MC] = startErrors[MC] + 1

\* C3: each field read is independently guarded: on a base object whose
\* attributes are each absent or well-formed, the metrics of the attributes
\* that are present are updated whatever other attribute is absent.
C3_IndependentlyGuarded ==
    (PassDoneStable /\ \A f \in Fields : ~HasAttr(f) \/ WellFormed(f)) =>
        /\ up[THIS_VERSION] = One
        /\ plan_valid = WantPlanValid
        /\ HasAttr("load_minutes_today") => load_today_kwh = WantLoad
        /\ HasAttr("cost_today_sofar") => cost_today = WantCost

\* C4: with a state of charge and a capacity on the base object, a pass that
\* does not fault sets battery_soc_percent to soc / capacity * 100 if the
\* capacity is positive and to 0 otherwise, for every soc, 0 included.
C4_SocPercent ==
    (PassDoneStable /\ ~faulted /\ WellFormed("soc_kw") /\ WellFormed("soc_max")) =>
        battery_soc_percent = WantSoc

\* C5: a pass over a base object without the load series, every other
\* attribute present and well-formed, updates app health, battery_soc_percent
\* and cost_today, leaves load_today_kwh as it was, counts no error and
\* returns.
C5_MissingLoadSeries ==
    (PassDoneStable /\ ~HasAttr("load_minutes_today")
        /\ \A f \in Fields \ {"load_minutes_today"} : WellFormed(f)) =>
        /\ ~faulted
        /\ errors_total[MC] = startErrors[MC]
        /\ up[THIS_VERSION] = One
        /\ plan_valid = WantPlanValid
        /\ plan_age_minutes = WantPlanAge
        /\ battery_soc_percent = WantSoc
        /\ cost_today = WantCost
        /\ load_today_kwh = startGauges.load_today_kwh

\* The gauge took the supplied value, or kept its own when none was supplied.
PartialUpdate(before, after, arg) ==
    after = IF arg = Omitted THEN before ELSE arg[1]

\* C6: in update_battery_metrics, update_energy_metrics and
\* update_cost_metrics, whatever subset of the arguments is omitted, a gauge
\* whose argument is omitted keeps its prior value, a gauge whose argument is
\* supplied takes that value, and the gauges of the other groups are untouched.
C6_PartialUpdate ==
    [][ /\ lastCall'[1] = "update_battery_metrics" =>
              /\ PartialUpdate(battery_soc_percent, battery_soc_percent', lastCall'[2])
              /\ PartialUpdate(charge_rate_kw, charge_rate_kw', lastCall'[3])
              /\ PartialUpdate(discharge_rate_kw, discharge_rate_kw', lastCall'[4])
              /\ UNCHANGED <<energyVars, costVars>>
        /\ lastCall'[1] = "update_energy_metrics" =>
              /\ PartialUpdate(load_today_kwh, load_today_kwh', lastCall'[2])
              /\ PartialUpdate(import_today_kwh, import_today_kwh', lastCall'[3])
              /\ PartialUpdate(export_today_kwh, export_today_kwh', lastCall'[4])
              /\ PartialUpdate(pv_today_kwh, pv_today_kwh', lastCall'[5])
              /\ UNCHANGED <<batteryVars, costVars>>
        /\ lastCall'[1] = "update_cost_metrics" =>
              /\ PartialUpdate(cost_today, cost_today', lastCall'[2])
              /\ PartialUpdate(savings_total, savings_total', lastCall'[3])
              /\ UNCHANGED <<batteryVars, energyVars>> ]_vars

\* C6's case: update_battery_metrics(soc_percent=0) was called with both
\* rates at 5: the percentage is 0 and the rates are still 5.
C6_Witness ==
    /\ lastCall = <<"update_battery_metrics", Given(Zero), Omitted, Omitted>>
    /\ battery_soc_percent = Zero
    /\ charge_rate_kw = Five
    /\ discharge_rate_kw = Five

\* C7: after any sequence of record_error calls on a fresh registry,
\* errors_total of every label is the number of calls made with that label.
C7_ErrorCount == \A t \in ErrorTypes : errors_total[t] = errCalls[t]

\* C7's case: two calls with one label, one with another, none with the third.
C7_Witness ==
    /\ errCalls["api"] = 2 /\ errCalls["general"] = 1
    /\ errors_total["api"] = 2
    /\ errors_total[MC] = 0

\* C8: record_api_request(service, success, response_time) adds 1 to
\* api_requests_total[service]; on failure it adds 1 to
\* api_failures_total[service] and leaves the last-success stamp, on success
\* it stamps api_last_success_timestamp[service] with now and leaves the
\* failures; the histogram of the service gains one observation if a
\* response time is supplied and none otherwise; other services are unchanged.
C8_RecordApiRequest ==
    [][ (ncalls' = ncalls + 1 /\ lastCall'[1] = "record_api_request") =>
          LET s  == lastCall'[2]
              ok == lastCall'[3]
              rt == lastCall'[4]
          IN  /\ api_requests_total' = [api_requests_total EXCEPT ![s] = @ + 1]
              /\ api_failures_total' =
                    IF ok THEN api_failures_total
                    ELSE [api_failures_total EXCEPT ![s] = @ + 1]
              /\ api_last_success_timestamp' =
                    IF ok THEN [api_last_success_timestamp EXCEPT ![s] = Rat(clock, 1)]
                    ELSE api_last_success_timestamp
              /\ api_response_time' =
                    IF rt = Omitted THEN api_response_time
                    ELSE [api_response_time EXCEPT
                            ![s] = [count |-> @.count + 1, sum |-> @.sum + rt[1]]] ]_vars

\* C8's case: a failed request to octopus with a response time, made after
\* the clock moved: one request, one failure, one observation, the stamp of
\* the construction still there.
C8_Witness ==
    /\ lastCall = <<"record_api_request", "octopus", FALSE, Given(2)>>
    /\ clock = 1
    /\ api_requests_total["octopus"] = 1
    /\ api_failures_total["octopus"] = 1
    /\ api_response_time["octopus"] = [count |-> 1, sum |-> 2]
    /\ api_last_success_timestamp["octopus"] = Zero

\* C9: a second pass over the same base object leaves every gauge as the
\* first pass left it.
C9_Idempotent ==
    (PassDoneStable /\ prevBase = <<base>>) => Gauges = startGauges

\* C9's case: the second of two passes over the same base object has set
\* plan age, battery and load gauges to values that are not the initial ones.
C9_Witness ==
    /\ PassDoneStable /\ prevBase = <<base>> /\ passes = 1
    /\ plan_age_minutes = Rat(10, 1)
    /\ battery_soc_percent = Rat(40, 1)
    /\ load_today_kwh = Rat(2, 1)

\* C10: in every state, the states between the steps of concurrent
\* record_api_request calls included, no service has more failures than requests.
C10_FailuresAtMostRequests ==
    \A s \in Services : api_failures_total[s] <= api_requests_total[s]

\* C10's case: two failing calls for one service are under way, one has
\* counted its failure and the other has counted its request only.
C10_Witness ==
    /\ cpc["c1"] = "L80" /\ cpc["c2"] = "L82"
    /\ cargs["c1"].service = "octopus" /\ cargs["c2"].service = "octopus"
    /\ api_requests_total["octopus"] = 2
    /\ api_failures_total["octopus"] = 1

====
